---- MODULE Spec2Model ----
(* Model of the phone-assist-voice server: the /stream/chunk handler of     *)
(* server/main.py with its process-wide audio buffer and previous            *)
(* transcript, the provider start-up and /stt/switch, and the transcribe     *)
(* methods of the speech-to-text providers of server/stt.                    *)
(*                                                                           *)
(* Representation.  A transcript is a sequence of one-character strings.     *)
(* The audio buffer is a Python list of int16 samples; it is represented     *)
(* as a sequence of runs [client, lo, hi]: the samples number lo..hi (in     *)
(* order of arrival at the server, counted from 1) that client `client`     *)
(* sent.  Adjacent runs of one client with consecutive numbers are merged,   *)
(* so every list of samples has exactly one representation.                  *)
EXTENDS Integers, Sequences, FiniteSets, TLC

\* ---------------------------------------------------------------- bounds
MaxLen == 2          \* longest text the engine produces
MaxChunks == 2       \* number of /stream/chunk requests in a run

\* ------------------------------------------------------------- constants
BufferCap == 80000   \* main.py:108-109, five seconds at 16 kHz
SampleWidth == 2     \* bytes of one np.int16 sample, main.py:102

Clients == {"A", "B"}
Chars == {"a", " "}
\* byte lengths of the uploaded chunks: empty, not a whole number of
\* samples, 50000 samples, 100000 samples (more than the capacity)
ChunkBytes == {0, 7, 100000, 200000}

Strings == UNION {[1..n -> Chars] : n \in 0..MaxLen}

NoProvider == "None"

\* ------------------------------------------------------- string helpers
IsSpace(ch) == ch = " "

RECURSIVE lstrip(_)
lstrip(s) ==
  IF s # <<>> /\ IsSpace(Head(s)) THEN lstrip(Tail(s)) ELSE s

RECURSIVE rstrip(_)
rstrip(s) ==
  IF s # <<>> /\ IsSpace(s[Len(s)]) THEN rstrip(SubSeq(s, 1, Len(s) - 1)) ELSE s

\* str.strip()
strip(s) == rstrip(lstrip(s))

\* str.startswith(p)
startswith(c, p) == Len(p) <= Len(c) /\ SubSeq(c, 1, Len(p)) = p

\* the characters of s that are not whitespace, in order
NonSpace(s) == SelectSeq(s, LAMBDA ch : ~IsSpace(ch))

\* ------------------------------------------------------- buffer helpers
RunSize(r) == r.hi - r.lo + 1

RECURSIVE BufLen(_)
BufLen(runs) ==
  IF runs = <<>> THEN 0 ELSE RunSize(Head(runs)) + BufLen(Tail(runs))

\* list.extend(pcm_data): the n samples numbered first..first+n-1 of client k
Extend(runs, k, first, n) ==
  IF n = 0 THEN runs
  ELSE IF runs # <<>> /\ runs[Len(runs)].client = k /\ runs[Len(runs)].hi + 1 = first
       THEN [runs EXCEPT ![Len(runs)].hi = first + n - 1]
       ELSE Append(runs, [client |-> k, lo |-> first, hi |-> first + n - 1])

\* the slice runs[-n:] for n >= 1
RECURSIVE LastSamples(_, _)
LastSamples(runs, n) ==
  IF runs = <<>> THEN <<>>
  ELSE LET r == runs[Len(runs)]
       IN IF RunSize(r) >= n
          THEN <<[r EXCEPT !.lo = r.hi - n + 1]>>
          ELSE LastSamples(SubSeq(runs, 1, Len(runs) - 1), n - RunSize(r)) \o <<r>>

\* the slice runs[:n] for n >= 1
RECURSIVE FirstSamples(_, _)
FirstSamples(runs, n) ==
  IF runs = <<>> THEN <<>>
  ELSE LET r == Head(runs)
       IN IF RunSize(r) >= n
          THEN <<[r EXCEPT !.hi = r.lo + n - 1]>>
          ELSE <<r>> \o FirstSamples(Tail(runs), n - RunSize(r))

TruncateKeepOldest(runs) ==
  IF BufLen(runs) > BufferCap THEN FirstSamples(runs, BufferCap) ELSE runs

\* main.py:108-109
Truncate(runs) ==
  IF BufLen(runs) > BufferCap THEN LastSamples(runs, BufferCap) ELSE runs

\* ------------------------------------------------------------ the engine
\* What the speech engine behind a provider does on one call: it produces a
\* text, it produces no results, or it throws.
EngineOutcomes ==
  {[kind |-> "text", text |-> s] : s \in Strings}
    \cup {[kind |-> "none", text |-> <<>>], [kind |-> "throw", text |-> <<>>]}

Returned(s) == [raised |-> FALSE, text |-> s]
Raised == [raised |-> TRUE, text |-> <<>>]

DeepgramSTT_transcribe_unguarded(o) ==
  CASE o.kind = "throw" -> Returned(<<>>)
    [] o.kind = "none" -> Raised
    [] OTHER -> Returned(strip(o.text))

WhisperSTT_transcribe_reraise(o) ==
  IF o.kind = "throw" THEN Raised ELSE Returned(strip(o.text))

\* whisper_provider.py:85-129
WhisperSTT_transcribe(o) ==
  IF o.kind = "throw" THEN Returned(<<>>) ELSE Returned(strip(o.text))

\* deepgram_provider.py:51-105
DeepgramSTT_transcribe(o) ==
  CASE o.kind = "throw" -> Returned(<<>>)
    [] o.kind = "none" -> Returned(<<>>)
    [] OTHER -> Returned(strip(o.text))

\* a registered STTProvider subclass: base.py:22-33 promises nothing more
\* than a string, and nothing catches what the engine throws
CustomSTT_transcribe(o) ==
  IF o.kind = "throw" THEN Raised ELSE Returned(o.text)

transcribe(provider, o) ==
  CASE provider = "WhisperSTT" -> WhisperSTT_transcribe(o)
    [] provider = "DeepgramSTT" -> DeepgramSTT_transcribe(o)
    [] OTHER -> CustomSTT_transcribe(o)

BuiltIn == {"WhisperSTT", "DeepgramSTT"}

\* ---------------------------------------------- the reconciler of main.py
reconcile_whole(p, c) == c

reconcile_no_strip(p, c) ==
  IF startswith(c, p) THEN SubSeq(c, Len(p) + 1, Len(c)) ELSE c

\* main.py:114-117: the new part of transcript c after transcript p
reconcile(p, c) ==
  IF startswith(c, p) THEN strip(SubSeq(c, Len(p) + 1, Len(c))) ELSE c

StoredOnlyWhenEmitted(prev, current, new_part) ==
  IF new_part # <<>> THEN current ELSE prev

StoredNever(prev, current, new_part) == prev

StoredIncrement(prev, current, new_part) == new_part

\* main.py:119: what prev_transcript becomes after a transcription
StoredTranscript(prev, current, new_part) == current

\* ------------------------------------------------------ provider factory
\* factory.py:20-31: the names registered when both provider modules import
BuiltInNames == {"deepgram", "whisper"}

ClassOf(name) ==
  CASE name = "deepgram" -> "DeepgramSTT"
    [] name = "whisper" -> "WhisperSTT"
    [] OTHER -> "CustomSTT"

\* factory.py:24-31: STTFactory._providers as the class body leaves it
BuiltInRegistry == [name \in BuiltInNames |-> ClassOf(name)]

create_provider_default(registry, provider_type, ctorOK) ==
  IF provider_type \notin DOMAIN registry THEN "WhisperSTT"
  ELSE IF ~ctorOK THEN "Exception"
  ELSE registry[provider_type]

\* factory.py:33-53; ctorOK: whether the provider's constructor succeeds
\* (the model loads, the API key is set)
create_provider(registry, provider_type, ctorOK) ==
  IF provider_type \notin DOMAIN registry THEN "ValueError"
  ELSE IF ~ctorOK THEN "Exception"
  ELSE registry[provider_type]

Failed(result) == result \in {"ValueError", "Exception"}

\* main.py:37-48
Startup(registry, provider_type, ctorOK, fallbackOK) ==
  LET first == create_provider(registry, provider_type, ctorOK)
      fallback == create_provider(registry, "whisper", fallbackOK)
  IN IF ~Failed(first) THEN first
     ELSE IF ~Failed(fallback) THEN fallback
     ELSE NoProvider

\* ----------------------------------------------------- provider instances
\* language codes: supported by both built-in providers, by Whisper only,
\* Whisper's automatic detection, and a code no provider knows
Langs == {"en", "he", "auto", "xx"}

\* whisper_provider.py:50-63 and deepgram_provider.py:38-49, cut to Langs
supported_languages(cls) ==
  CASE cls = "WhisperSTT" -> {"en", "he"}
    [] cls = "DeepgramSTT" -> {"en"}
    [] OTHER -> {}

Keys == {"language", "model"}

\* the values of the model: the language codes, and one model name that is
\* the default of neither built-in provider
ValuesOf(key) == IF key = "language" THEN Langs ELSE {"base"}

\* the config dictionaries: a value for some of the keys
Configs ==
  {c \in UNION {[D -> Langs \cup {"base"}] : D \in SUBSET Keys} :
     \A key \in DOMAIN c : c[key] \in ValuesOf(key)}

\* dict.get(key, default)
Get(config, key, default) ==
  IF key \in DOMAIN config THEN config[key] ELSE default

NoObject ==
  [cls |-> NoProvider, language |-> "-", model_name |-> "-", loaded |-> "-",
   config |-> <<>>]

\* whisper_provider.py:40, deepgram_provider.py:32: the model a built-in
\* provider takes when the config names none
DefaultModel(cls) == IF cls = "WhisperSTT" THEN "tiny" ELSE "nova-2"

\* base.py:12-19, whisper_provider.py:27-47, deepgram_provider.py:17-34: the
\* instance a constructor that succeeds leaves; only the built-in providers
\* have a language and a model attribute. model_name is the attribute
\* (self.model_name of Whisper, self.model of Deepgram), loaded the model the
\* engine runs: the one Whisper loaded last, the one Deepgram is asked for.
Construct(cls, config) ==
  [cls |-> cls,
   language |-> IF cls \in BuiltIn THEN Get(config, "language", "en") ELSE "-",
   model_name |-> IF cls \in BuiltIn
                  THEN Get(config, "model", DefaultModel(cls)) ELSE "-",
   loaded |-> IF cls \in BuiltIn
              THEN Get(config, "model", DefaultModel(cls)) ELSE "-",
   config |-> config]

\* dict item assignment config[key] = value
Assigned(config, key, value) ==
  [k \in DOMAIN config \cup {key} |-> IF k = key THEN value ELSE config[k]]

Accepts_anything(cls, language) == TRUE

\* whisper_provider.py:155 and deepgram_provider.py:132: the test of
\* set_language
Accepts(cls, language) ==
  IF cls = "WhisperSTT"
  THEN language = "auto" \/ language \in supported_languages(cls)
  ELSE language \in supported_languages(cls)

SetLanguage_attribute_only(obj, language) ==
  IF Accepts(obj.cls, language)
  THEN [outcome |-> "ok", obj |-> [obj EXCEPT !.language = language]]
  ELSE [outcome |-> "ValueError", obj |-> obj]

\* whisper_provider.py:148-159, deepgram_provider.py:125-136
SetLanguage(obj, language) ==
  IF Accepts(obj.cls, language)
  THEN [outcome |-> "ok",
        obj |-> [obj EXCEPT !.language = language,
                            !.config = Assigned(obj.config, "language", language)]]
  ELSE [outcome |-> "ValueError", obj |-> obj]

\* whisper_provider.py:161-170: the name and the config are set before the
\* model is loaded; a load that fails raises and leaves the old model loaded.
\* deepgram_provider.py:138-146: the model is only a name sent with a request.
UpdateModel(obj, model, loadOK) ==
  LET named == [obj EXCEPT !.model_name = model,
                           !.config = Assigned(obj.config, "model", model)]
  IN IF obj.cls = "WhisperSTT" /\ ~loadOK
     THEN [outcome |-> "Exception", obj |-> named]
     ELSE [outcome |-> "ok", obj |-> [named EXCEPT !.loaded = model]]

\* what transcribe hands to the engine: whisper_provider.py:100-104 and
\* 116-119 (the loaded model and self.language), deepgram_provider.py:76-81
language_in_use(obj) == obj.language

model_in_use(obj) == obj.loaded

Merged_replace(config, update) == update

\* base.py:73-75: self.config.update(config)
Merged(config, update) ==
  [k \in DOMAIN config \cup DOMAIN update |->
     IF k \in DOMAIN update THEN update[k] ELSE config[k]]

\* base.py:69-71
get_config(obj) == obj.config

\* main.py:205-218: the answer of POST /stt/language to the outcome of
\* set_language on the server's provider
set_stt_language(outcome) == IF outcome = "ok" THEN 200 ELSE 500

\* factory.py:55-63
get_available_providers(registry) == DOMAIN registry

\* ---------------------------------------------------------- the segmenter
\* vad_processor.py:5-8
FRAME_SIZE == 320

MAX_SILENCE_FRAMES == 15

\* most process_audio calls in one behaviour
MaxCalls == 3

\* webrtcvad's is_speech (vad_processor.py:24) takes frames of 10, 20 or 30 ms
\* and raises on every other length; at 16 kHz these are the lengths in samples
ValidFrameLengths == {160, 320, 480}

\* the lengths of the inputs the model hands to process_audio: empty, shorter
\* than a frame, whole frames, and lengths that are no multiple of a frame
CallSizes == {0, 100, 320, 480, 640, 700, 959, 5120, 5760}

\* the frames of an input that the classifier calls speech, by position: none,
\* the first, the second, or all
Patterns(N) == {{}, {1}, {2}, 1..N} \cap SUBSET (1..N)

\* vad_processor.py:18: np.array_split(pcm_data, len(pcm_data) // FRAME_SIZE)
\* cuts the input into that many sections of nearly equal length, the longer
\* ones first; the result is the sequence of their lengths. With zero sections
\* array_split raises ValueError (see Sections).
array_split(n) ==
  LET N == n \div FRAME_SIZE
  IN [i \in 1..N |-> (n \div N) + (IF i <= n % N THEN 1 ELSE 0)]

\* the number of sections asked of array_split
Sections(n) == n \div FRAME_SIZE

Boundary_at_threshold(counter) == counter >= MAX_SILENCE_FRAMES

Boundary_late(counter) == counter > MAX_SILENCE_FRAMES + 1

\* vad_processor.py:34
Boundary(counter) == counter > MAX_SILENCE_FRAMES

reset_keeps_buffer(st) ==
  [st EXCEPT !.silence_counter = 0, !.in_speech = FALSE]

reset_keeps_counter(st) ==
  [st EXCEPT !.buffer = <<>>, !.in_speech = FALSE]

\* vad_processor.py:41-44
reset(st) ==
  [st EXCEPT !.buffer = <<>>, !.silence_counter = 0, !.in_speech = FALSE]

after_return_next_frame(sizes, i) == i + 1

\* vad_processor.py:37: the return inside the loop at frame i leaves every
\* later frame of the input unread: the loop goes on past the last frame
after_return(sizes, i) == Len(sizes) + 1

\* vad_processor.py:21-39: the loop from frame i on. st holds the segmenter's
\* fields, the number of frames classified so far, and the answer; a frame
\* is the number it has among all frames the segmenter has seen.
RECURSIVE loop(_, _, _, _)
loop(st, sizes, speech, i) ==
  IF i > Len(sizes) THEN [st EXCEPT !.outcome = "ok"]
  ELSE IF sizes[i] < FRAME_SIZE THEN loop(st, sizes, speech, i + 1)
  ELSE IF sizes[i] \notin ValidFrameLengths THEN [st EXCEPT !.outcome = "Error"]
  ELSE
    LET frame == st.base + i
        seen == [st EXCEPT !.classified = @ + 1]
    IN IF i \in speech
       THEN loop([seen EXCEPT !.buffer = Append(@, frame),
                              !.in_speech = TRUE,
                              !.silence_counter = 0],
                 sizes, speech, i + 1)
       ELSE IF st.in_speech
       THEN LET more == [seen EXCEPT !.silence_counter = @ + 1,
                                     !.buffer = Append(@, frame)]
            IN IF Boundary(more.silence_counter)
               THEN loop([reset(more) EXCEPT
                            !.finalized = more.finalized + 1,
                            !.segments = Append(@, more.buffer)],
                         sizes, speech, after_return(sizes, i))
               ELSE loop(more, sizes, speech, i + 1)
       ELSE loop(seen, sizes, speech, i + 1)

\* the classifications of a run of frames, appended to the record of all
\* frames seen, which is kept as runs of equal classification
RECURSIVE Taped(_, _, _, _)
Taped(tape, speech, i, N) ==
  IF i > N THEN tape
  ELSE LET flag == i \in speech
           k == Len(tape)
       IN Taped(IF k > 0 /\ tape[k].speech = flag
                THEN [tape EXCEPT ![k].n = @ + 1]
                ELSE Append(tape, [speech |-> flag, n |-> 1]),
                speech, i + 1, N)

\* the number of frames on the tape
RECURSIVE Fed(_)
Fed(tape) == IF tape = <<>> THEN 0 ELSE tape[1].n + Fed(Tail(tape))

\* ------------------------------------------------------------------ state
VARIABLES
  providers,          \* STTFactory._providers: registered name -> class
  stt_provider,       \* main.py: class of the provider instance, or NoProvider
  stt_provider_type,  \* main.py: the provider name
  audio_buffer,       \* main.py:51
  prev_transcript,    \* main.py:52
  inflight,           \* the clients whose request awaits chunk.read()
  requests,           \* number of /stream/chunk requests made so far
  total,              \* history: number of samples ever appended
  last,               \* history: the last answered /stream/chunk request
  returned,           \* history: the transcript the provider returned last
  failed,             \* history: the engine has thrown during some request
  chain,              \* history: every transcript so far extends the one before
  emitted,            \* history: non-blank characters answered while chain holds
  recording,          \* history: whether /stt/switch answers are recorded
  switched,           \* history: the answer of /stt/switch, if it came last
  provider_obj,       \* a provider instance: class, language, config
  fres,               \* history: the last call on the factory or the instance
  vad_buffer,         \* VADProcessor.buffer: the frames accumulated
  silence_counter,    \* VADProcessor.silence_counter
  in_speech,          \* VADProcessor.in_speech
  calls,              \* the number of process_audio calls made
  tape,               \* history: the classification of every frame seen
  unread,             \* history: the frames a return inside the loop skipped
  segments,           \* history: the finalized segments, in order
  vres,               \* history: the last process_audio call
  session,            \* the state of one session: ACTIVE, CLOSING or CLOSED
  finals,             \* the session's accumulated final-utterance texts
  events,             \* the events the session has emitted, in order
  released            \* whether the session's buffers are released

\* the variables outside the /stream/chunk and /stt/switch handlers
ovars == <<provider_obj, fres>>

vars == <<providers, stt_provider, stt_provider_type, audio_buffer,
          prev_transcript, inflight, requests, total, last, returned, failed,
          chain, emitted, recording, switched, provider_obj, fres,
          vad_buffer, silence_counter, in_speech, calls, tape, unread, segments,
          vres, session, finals, events, released>>

\* the session
evars == <<session, finals, events, released>>

\* the segmenter and its history
svars ==
  <<vad_buffer, silence_counter, in_speech, calls, tape, unread, segments, vres>>

\* the last request answered was not a /stt/switch
NoSwitch == [code |-> 0, name |-> "-"]

\* the record of a request: who sent it, the provider that served it, whether
\* the engine was reached, what the engine did, whether transcribe raised,
\* prev_transcript as the request found it, the transcript the provider
\* returned, and the response (status, HTTP code, text)
NoCall ==
  [client |-> "-", provider |-> NoProvider, reached |-> FALSE,
   engine |-> "-", raised |-> FALSE, before |-> <<>>, current |-> <<>>,
   status |-> "-", code |-> 0, text |-> <<>>]

\* main.py:20-55, with an empty history
Start ==
  /\ providers = BuiltInRegistry
  /\ stt_provider_type \in {"whisper", "deepgram", "azure"}
  /\ \E ctorOK \in BOOLEAN, fallbackOK \in BOOLEAN :
       stt_provider = Startup(providers, stt_provider_type, ctorOK, fallbackOK)
  /\ audio_buffer = <<>>
  /\ prev_transcript = <<>>
  /\ inflight = {}
  /\ requests = 0
  /\ total = 0
  /\ last = NoCall
  /\ returned = <<>>
  /\ failed = FALSE
  /\ chain = TRUE
  /\ emitted = <<>>
  /\ switched = NoSwitch

\* nothing was called on the factory and no instance was made
NoFactoryCall ==
  [op |-> "-", name |-> "-", cls |-> "-", arg |-> "-", outcome |-> "-",
   ctor |-> 0, code |-> 0]

ObjectsIdle ==
  /\ provider_obj = NoObject
  /\ fres = NoFactoryCall

\* no process_audio call was made
NoAudio ==
  [n |-> 0, speech |-> {}, outcome |-> "-", finalized |-> 0, classified |-> 0,
   sizes |-> <<>>]

\* vad_processor.py:11-15
VADProcessor_init ==
  /\ vad_buffer = <<>>
  /\ silence_counter = 0
  /\ in_speech = FALSE
  /\ calls = 0
  /\ tape = <<>>
  /\ unread = {}
  /\ segments = <<>>
  /\ vres = NoAudio

\* a session right after the client connected
SessionOpen ==
  /\ session = "ACTIVE"
  /\ finals = <<>>
  /\ events = <<>>
  /\ released = FALSE

Init ==
  Start /\ recording = FALSE /\ ObjectsIdle /\ VADProcessor_init /\ SessionOpen

\* ------------------------------------------------------------ /stream/chunk
AvailableAlways(provider) == TRUE

\* main.py:98: stt_provider is not None
Available(provider) == provider # NoProvider

\* main.py:98-99: with no provider the request is refused
ChunkRefused(k) ==
  /\ k \notin inflight
  /\ requests < MaxChunks
  /\ ~Available(stt_provider)
  /\ requests' = requests + 1
  /\ last' = [NoCall EXCEPT !.client = k, !.status = "error", !.code = 500]
  /\ switched' = NoSwitch
  /\ UNCHANGED <<providers, stt_provider, stt_provider_type, audio_buffer,
                 prev_transcript, inflight, total, returned, failed, chain, emitted,
                 recording>>
  /\ UNCHANGED <<ovars, svars, evars>>

\* main.py:95-101: a request arrives and the handler awaits chunk.read()
ChunkArrives(k) ==
  /\ k \notin inflight
  /\ requests < MaxChunks
  /\ Available(stt_provider)
  /\ requests' = requests + 1
  /\ inflight' = inflight \cup {k}
  /\ switched' = NoSwitch
  /\ UNCHANGED <<providers, stt_provider, stt_provider_type, audio_buffer,
                 prev_transcript, total, last, returned, failed, chain, emitted,
                 recording>>
  /\ UNCHANGED <<ovars, svars, evars>>

\* main.py:101-102: np.frombuffer raises ValueError when the bytes read are
\* not a whole number of int16 samples; nothing in the handler catches it
ChunkMalformed(k, nbytes) ==
  /\ k \in inflight
  /\ nbytes % SampleWidth # 0
  /\ inflight' = inflight \ {k}
  /\ last' = [NoCall EXCEPT !.client = k, !.status = "error", !.code = 500]
  /\ switched' = NoSwitch
  /\ UNCHANGED <<providers, stt_provider, stt_provider_type, audio_buffer,
                 prev_transcript, requests, total, returned, failed, chain, emitted,
                 recording>>
  /\ UNCHANGED <<ovars, svars, evars>>

\* main.py:101-126, which runs without suspending once the bytes are read:
\* decode, append, truncate, transcribe, reconcile, store, answer
ChunkProcessed(k, nbytes, o) ==
  /\ k \in inflight
  /\ nbytes % SampleWidth = 0
  /\ LET n == nbytes \div SampleWidth
         buffer == Truncate(Extend(audio_buffer, k, total + 1, n))
         result == transcribe(stt_provider, o)
         current_transcript == result.text
         new_part == reconcile(prev_transcript, current_transcript)
         call == [NoCall EXCEPT !.client = k, !.provider = stt_provider,
                                !.reached = TRUE, !.engine = o.kind,
                                !.before = prev_transcript]
     IN /\ audio_buffer' = buffer
        /\ total' = total + n
        /\ inflight' = inflight \ {k}
        /\ failed' = (failed \/ o.kind = "throw")
        /\ IF result.raised
           THEN /\ last' = [call EXCEPT !.raised = TRUE, !.status = "error",
                                        !.code = 500]
                /\ chain' = FALSE
                /\ emitted' = <<>>
                /\ UNCHANGED <<prev_transcript, returned>>
           ELSE /\ prev_transcript' =
                     StoredTranscript(prev_transcript, current_transcript, new_part)
                /\ last' = IF new_part # <<>>
                           THEN [call EXCEPT !.current = current_transcript,
                                             !.status = "transcript", !.code = 200,
                                             !.text = new_part]
                           ELSE [call EXCEPT !.current = current_transcript,
                                             !.status = "waiting", !.code = 200]
                /\ returned' = current_transcript
                /\ chain' = (chain /\ startswith(current_transcript, returned))
                /\ emitted' = IF chain' THEN emitted \o NonSpace(new_part) ELSE <<>>
  /\ switched' = NoSwitch
  /\ UNCHANGED <<providers, stt_provider, stt_provider_type, requests,
                 recording>>
  /\ UNCHANGED <<ovars, svars, evars>>

\* ------------------------------------------------------------- /stt/switch
\* the answer of a switch and the provider and provider type it leaves
SwitchResult(code, provider, ptype) ==
  [code |-> code, provider |-> provider, ptype |-> ptype]

SwitchOutcomeTypeFirst(registry, provider, ptype, name, ctorOK) ==
  LET made == create_provider(registry, name, ctorOK)
  IN IF name \notin DOMAIN registry THEN SwitchResult(400, provider, ptype)
     ELSE IF Failed(made) THEN SwitchResult(500, provider, name)
     ELSE SwitchResult(200, made, name)

\* main.py:188-202
SwitchOutcome(registry, provider, ptype, name, ctorOK) ==
  LET made == create_provider(registry, name, ctorOK)
  IN IF name \notin DOMAIN registry THEN SwitchResult(400, provider, ptype)
     ELSE IF Failed(made) THEN SwitchResult(500, provider, ptype)
     ELSE SwitchResult(200, made, name)

\* main.py:183-202
switch_provider(provider_type, ctorOK) ==
  /\ LET out == SwitchOutcome(providers, stt_provider, stt_provider_type,
                              provider_type, ctorOK)
     IN /\ stt_provider' = out.provider
        /\ stt_provider_type' = out.ptype
        /\ switched' = IF recording
                        THEN [code |-> out.code,
                              name |-> IF out.code = 200 THEN provider_type ELSE "-"]
                        ELSE NoSwitch
  /\ UNCHANGED <<providers, audio_buffer, prev_transcript, inflight, requests,
                 total, last, returned, failed, chain, emitted,
                 recording>>
  /\ UNCHANGED <<ovars, svars, evars>>

\* main.py:167-180: the answer of GET /stt/current
get_current_provider(provider, ptype) ==
  IF provider = NoProvider
  THEN [code |-> 500, provider_type |-> "-"]
  ELSE [code |-> 200, provider_type |-> ptype]

\* ------------------------------------------------------- register_provider
\* the classes a caller may hand to register_provider: provider classes and
\* a class that does not derive from STTProvider
\* the classes that derive from STTProvider (base.py:9)
ProviderClasses == {"WhisperSTT", "DeepgramSTT", "CustomSTT"}

IsSubclass_any(cls) == TRUE

\* factory.py:74: issubclass(provider_class, STTProvider)
IsSubclass(cls) == cls \in ProviderClasses

\* factory.py:76: cls._providers[name] = provider_class
Registered(registry, name, cls) ==
  [n \in DOMAIN registry \cup {name} |-> IF n = name THEN cls ELSE registry[n]]

\* factory.py:65-77
register_provider(name, cls) ==
  /\ providers' = IF IsSubclass(cls) THEN Registered(providers, name, cls)
                  ELSE providers
  /\ fres' = [NoFactoryCall EXCEPT
                !.op = "register", !.name = name, !.cls = cls,
                !.outcome = IF IsSubclass(cls) THEN "ok" ELSE "ValueError"]
  /\ switched' = NoSwitch
  /\ UNCHANGED <<stt_provider, stt_provider_type, audio_buffer, prev_transcript,
                 inflight, requests, total, last, returned, failed, chain, emitted,
                 recording, provider_obj, svars, evars>>

\* ------------------------------------------- calls on factory and instance
\* the handler variables, which these calls leave alone
hvars == <<stt_provider, stt_provider_type, audio_buffer, prev_transcript,
           inflight, requests, total, last, returned, failed, chain, emitted,
           recording, switched>>

\* factory.py:33-53: STTFactory.create_provider(name, config)
CreateProvider(name, config, ctorOK) ==
  /\ LET made == create_provider(providers, name, ctorOK)
     IN /\ provider_obj' = IF Failed(made) THEN provider_obj
                           ELSE Construct(made, config)
        /\ fres' = [NoFactoryCall EXCEPT
                      !.op = "create", !.name = name, !.arg = config,
                      !.cls = IF Failed(made) THEN "-" ELSE made,
                      !.outcome = IF Failed(made) THEN made ELSE "ok",
                      !.ctor = IF made = "ValueError" THEN 0 ELSE 1]
  /\ UNCHANGED <<providers, hvars, svars, evars>>

\* whisper_provider.py:148-159, deepgram_provider.py:125-136, on the instance
set_language(language) ==
  /\ provider_obj.cls \in BuiltIn
  /\ LET r == SetLanguage(provider_obj, language)
     IN /\ provider_obj' = r.obj
        /\ fres' = [NoFactoryCall EXCEPT
                      !.op = "set_language", !.cls = provider_obj.cls,
                      !.arg = language, !.outcome = r.outcome,
                      !.code = set_stt_language(r.outcome)]
  /\ UNCHANGED <<providers, hvars, svars, evars>>

\* base.py:73-75, on the instance
update_config(config) ==
  /\ provider_obj # NoObject
  /\ provider_obj' = [provider_obj EXCEPT !.config = Merged(@, config)]
  /\ fres' = [NoFactoryCall EXCEPT
                !.op = "update_config", !.cls = provider_obj.cls,
                !.arg = config, !.outcome = "ok"]
  /\ UNCHANGED <<providers, hvars, svars, evars>>

\* whisper_provider.py:161-170, deepgram_provider.py:138-146, on the instance
update_model(model, loadOK) ==
  /\ provider_obj.cls \in BuiltIn
  /\ LET r == UpdateModel(provider_obj, model, loadOK)
     IN /\ provider_obj' = r.obj
        /\ fres' = [NoFactoryCall EXCEPT
                      !.op = "update_model", !.cls = provider_obj.cls,
                      !.arg = model, !.outcome = r.outcome]
  /\ UNCHANGED <<providers, hvars, svars, evars>>

Next ==
  \/ \E k \in Clients : ChunkRefused(k)
  \/ \E k \in Clients : ChunkArrives(k)
  \/ \E k \in Clients, nbytes \in ChunkBytes : ChunkMalformed(k, nbytes)
  \/ \E k \in Clients, nbytes \in ChunkBytes, o \in EngineOutcomes :
       ChunkProcessed(k, nbytes, o)
  \/ \E name \in {"whisper", "deepgram", "custom", "azure"}, ctorOK \in BOOLEAN :
       switch_provider(name, ctorOK)
  \/ register_provider("custom", "CustomSTT")

Spec == Init /\ [][Next]_vars

\* The same server with the answers of /stt/switch recorded, fed chunks of
\* 7 and 100000 bytes and an engine that returns "a" or throws.
SwitchEngine ==
  {[kind |-> "text", text |-> <<"a">>], [kind |-> "throw", text |-> <<>>]}

SwitchInit ==
  Start /\ recording = TRUE /\ ObjectsIdle /\ VADProcessor_init /\ SessionOpen

SwitchNext ==
  \/ \E k \in Clients : ChunkRefused(k)
  \/ \E k \in Clients : ChunkArrives(k)
  \/ \E k \in Clients : ChunkMalformed(k, 7)
  \/ \E k \in Clients, o \in SwitchEngine : ChunkProcessed(k, 100000, o)
  \/ \E name \in {"whisper", "deepgram", "custom", "azure"}, ctorOK \in BOOLEAN :
       switch_provider(name, ctorOK)
  \/ register_provider("custom", "CustomSTT")

SwitchSpec == SwitchInit /\ [][SwitchNext]_vars

\* The factory and one provider instance, used as a library: the server
\* variables stay as a start-up with Whisper leaves them.
FactoryInit ==
  /\ Start
  /\ stt_provider_type = "whisper"
  /\ stt_provider = "WhisperSTT"
  /\ recording = FALSE
  /\ ObjectsIdle
  /\ VADProcessor_init
  /\ SessionOpen

FactoryNext ==
  \/ \E name \in {"whisper", "deepgram", "custom", "azure"}, config \in Configs,
        ctorOK \in BOOLEAN : CreateProvider(name, config, ctorOK)
  \/ \E name \in {"whisper", "custom"}, cls \in {"CustomSTT", "object"} :
       register_provider(name, cls)
  \/ \E language \in Langs : set_language(language)
  \/ \E config \in Configs : update_config(config)
  \/ \E model \in ValuesOf("model"), loadOK \in BOOLEAN :
       update_model(model, loadOK)

FactorySpec == FactoryInit /\ [][FactoryNext]_vars

\* ---------------------------------------------------- calls on the segmenter
\* vad_processor.py:17-39: process_audio on an input of n samples whose
\* frames at the positions in speech the classifier calls speech
process_audio(n, speech) ==
  /\ calls < MaxCalls
  /\ calls' = calls + 1
  /\ IF Sections(n) = 0
     THEN /\ vres' = [NoAudio EXCEPT !.n = n, !.outcome = "ValueError"]
          /\ UNCHANGED <<vad_buffer, silence_counter, in_speech, tape, unread,
                         segments>>
     ELSE LET sizes == array_split(n)
              st == loop([buffer |-> vad_buffer, silence_counter |-> silence_counter,
                          in_speech |-> in_speech, base |-> Fed(tape),
                          classified |-> 0, finalized |-> 0, segments |-> <<>>,
                          outcome |-> "-"],
                         sizes, speech, 1)
              \* a call that raises leaves the frames it did not classify
              \* unseen; a call that returns has seen them all
              seen == IF st.outcome = "ok" THEN Len(sizes) ELSE st.classified
          IN /\ vad_buffer' = st.buffer
             /\ silence_counter' = st.silence_counter
             /\ in_speech' = st.in_speech
             /\ tape' = Taped(tape, speech, 1, seen)
             /\ unread' = unread \cup
                            {Fed(tape) + i : i \in (st.classified + 1)..seen}
             /\ segments' = segments \o st.segments
             /\ vres' = [n |-> n, speech |-> speech, outcome |-> st.outcome,
                         finalized |-> st.finalized,
                         classified |-> st.classified, sizes |-> sizes]
  /\ UNCHANGED <<providers, hvars, ovars, evars>>

\* One segmenter, fed inputs of every length of the model; the server and the
\* factory stay as a start-up with Whisper leaves them.
VadInit == FactoryInit

VadNext ==
  \E n \in CallSizes : \E speech \in Patterns(n \div FRAME_SIZE) :
    process_audio(n, speech)

VadSpec == VadInit /\ [][VadNext]_vars

\* ------------------------------------------------------------- the session
\* The streaming endpoint the client connects to (send_audio.py:12, 26) is
\* not among the source files; the session is modelled from section 4.4 and
\* section 6 of the specification.

\* most events a session emits before it is torn down
MaxEvents == 3

\* the texts of the model's events
SessionTexts == {<<"a">>, <<"a", " ">>, <<" ">>}

\* the texts joined with one space between them
RECURSIVE Join(_)
Join(texts) ==
  IF texts = <<>> THEN <<>>
  ELSE IF Len(texts) = 1 THEN texts[1]
  ELSE texts[1] \o <<" ">> \o Join(Tail(texts))

final_full_untrimmed(texts) == Join(texts)

\* section 4.4: the accumulated texts, whitespace-joined and trimmed
final_full(texts) == strip(Join(texts))

Event(kind, text) == [kind |-> kind, text |-> text]

\* section 4.4 step 4: an increment is emitted as a partial event
SessionPartial(text) ==
  /\ session = "ACTIVE"
  /\ Len(events) < MaxEvents
  /\ events' = Append(events, Event("partial", text))
  /\ UNCHANGED <<session, finals, released>>
  /\ UNCHANGED <<providers, hvars, ovars, svars>>

\* section 4.4 step 5: an utterance is final; its text is emitted and kept
SessionFinal(text) ==
  /\ session = "ACTIVE"
  /\ Len(events) < MaxEvents
  /\ events' = Append(events, Event("final", text))
  /\ finals' = Append(finals, text)
  /\ UNCHANGED <<session, released>>
  /\ UNCHANGED <<providers, hvars, ovars, svars>>

\* section 4.4, failure semantics: a transcription failure is emitted as an
\* error event and the session stays ACTIVE
SessionError ==
  /\ session = "ACTIVE"
  /\ Len(events) < MaxEvents
  /\ events' = Append(events, Event("error", <<>>))
  /\ UNCHANGED <<session, finals, released>>
  /\ UNCHANGED <<providers, hvars, ovars, svars>>

\* section 4.4: the transport closes; the session is CLOSING
TransportClosed ==
  /\ session = "ACTIVE"
  /\ session' = "CLOSING"
  /\ UNCHANGED <<finals, events, released>>
  /\ UNCHANGED <<providers, hvars, ovars, svars>>

\* section 4.4: on close or disconnect while ACTIVE or CLOSING, emit one
\* final_full event if any final text was accumulated, go to CLOSED and
\* release all buffers
Teardown ==
  /\ session \in {"ACTIVE", "CLOSING"}
  /\ events' = IF finals # <<>>
               THEN Append(events, Event("final_full", final_full(finals)))
               ELSE events
  /\ session' = "CLOSED"
  /\ released' = TRUE
  /\ finals' = <<>>
  /\ UNCHANGED <<providers, hvars, ovars, svars>>

SessionInit == FactoryInit

SessionNext ==
  \/ \E text \in SessionTexts : SessionPartial(text)
  \/ \E text \in SessionTexts : SessionFinal(text)
  \/ SessionError
  \/ TransportClosed
  \/ Teardown

SessionSpec == SessionInit /\ [][SessionNext]_vars

\* ================================================================= claims
\* the last request reached the engine and transcribe returned a transcript
Transcribed == last.reached /\ ~last.raised

\* every run is non-empty and starts right after the run before it ends
Contiguous(runs) ==
  \A i \in 1..Len(runs) :
    /\ runs[i].lo <= runs[i].hi
    /\ i < Len(runs) => runs[i].hi + 1 = runs[i + 1].lo

\* C1: after any sequence of /stream/chunk calls the audio buffer holds at
\* most 80000 samples, and they are exactly the last 80000 samples ever
\* appended (all of them while fewer were appended), in arrival order.
C1_BufferHoldsLastSamples ==
  /\ BufLen(audio_buffer) <= BufferCap
  /\ BufLen(audio_buffer) = (IF total < BufferCap THEN total ELSE BufferCap)
  /\ Contiguous(audio_buffer)
  /\ audio_buffer # <<>> => audio_buffer[Len(audio_buffer)].hi = total

\* C1 witness: more than the capacity was appended, and the buffer keeps the
\* tail of one client's chunk followed by another client's chunk
C1_Witness ==
  /\ total > BufferCap
  /\ Len(audio_buffer) = 2
  /\ audio_buffer[1].lo > 1

\* C2: when the current transcript starts with the previous one, the
\* increment is the current transcript without its first len(previous)
\* characters, stripped of leading and trailing whitespace.
C2_PrefixProperty ==
  (Transcribed /\ startswith(last.current, last.before)) =>
    last.text = strip(SubSeq(last.current, Len(last.before) + 1, Len(last.current)))

\* C2 witness: a cycle whose transcript extends a non-empty previous one and
\* whose answer is the part after it
C2_Witness ==
  /\ Transcribed
  /\ last.before # <<>>
  /\ startswith(last.current, last.before)
  /\ last.status = "transcript"
  /\ last.text # last.current

\* C3: when the current transcript does not start with the previous one, the
\* increment is the whole current transcript stripped of leading and trailing
\* whitespace, and no error is raised.
C3_RestartProperty ==
  (Transcribed /\ ~startswith(last.current, last.before)) =>
    /\ last.text = strip(last.current)
    /\ last.status # "error"

\* C4: whenever the trimmed increment is empty, in particular when the engine
\* returns the transcript of the previous cycle again, the answer is
\* {"status": "waiting"}: no transcript text is returned and it is no error.
C4_EmptyIncrementWaits ==
  /\ (Transcribed /\ last.current = last.before) => last.status = "waiting"
  /\ (Transcribed /\ strip(last.text) = <<>>) => last.status = "waiting"
  /\ last.status = "waiting" => last.code = 200 /\ last.text = <<>>

\* C5: from an empty transcript state, while every transcript the engine
\* returns starts with the one before it, the text answered for a chunk is
\* the trimmed suffix of its transcript beyond the previous one, so that the
\* non-blank characters answered so far are those of the latest transcript,
\* each once.
C5_EndToEndIncrements ==
  (chain /\ Transcribed) =>
    /\ last.text = strip(SubSeq(last.current, Len(last.before) + 1, Len(last.current)))
    /\ startswith(last.current, last.before)
    /\ emitted = NonSpace(last.current)

\* C5 witness: the second chunk of a chain extends a non-empty transcript
C5_Witness ==
  /\ chain
  /\ Transcribed
  /\ requests = 2
  /\ last.before # <<>>
  /\ last.status = "transcript"
  /\ last.current # last.before

\* C6: a client's chunk processing never reads or changes another client's
\* audio buffer: the buffer transcribed for a request holds only samples that
\* the requesting client sent.
C6_SessionIsolation ==
  last.reached =>
    \A i \in 1..Len(audio_buffer) : audio_buffer[i].client = last.client

\* C7: after each /stream/chunk call that reaches the engine, the stored
\* previous transcript is the raw transcript the engine returned for that
\* call, whether or not any text was emitted.
C7_TranscriptReplacedEachCycle ==
  Transcribed => prev_transcript = last.current

\* C7 witness: a cycle that emitted nothing and replaced a different transcript
C7_Witness ==
  /\ Transcribed
  /\ last.status = "waiting"
  /\ last.current # last.before
  /\ prev_transcript = last.current

\* C8 as stated: a cycle whose increment is empty leaves the stored previous
\* transcript unchanged.
C8_UnchangedWhenNothingEmitted ==
  (Transcribed /\ last.status = "waiting") => prev_transcript = last.before

\* C8 amended: a cycle whose increment is empty replaces the stored previous
\* transcript like any other cycle; when the engine returns the empty string
\* after a non-empty transcript the stored transcript becomes empty.
C8_ReplacedWhenNothingEmitted ==
  (Transcribed /\ last.status = "waiting") =>
    /\ prev_transcript = last.current
    /\ last.current = <<>> => prev_transcript = <<>>

\* C8 witness: the engine returned the empty string after a non-empty
\* transcript
C8_Witness ==
  /\ Transcribed
  /\ last.status = "waiting"
  /\ last.before # <<>>
  /\ last.current = <<>>
  /\ prev_transcript = <<>>

\* C9 as stated: an engine failure during a chunk is answered with an error
\* result, distinct from "waiting".
C9_FailureAnsweredAsError ==
  (last.reached /\ last.engine = "throw") => last.status = "error"

\* C9 amended: a built-in provider catches the engine's failure and returns
\* the empty transcript, so the chunk is answered {"status": "waiting"} with
\* code 200 and the stored transcript becomes empty; a registered provider
\* that lets the failure through ends the request with code 500 and leaves
\* the stored transcript as it was.  Either way the provider stays in place
\* for later chunks.
C9_FailureAnsweredAsSilence ==
  (last.reached /\ last.engine = "throw") =>
    /\ last.provider # NoProvider
    /\ stt_provider # NoProvider
    /\ IF last.provider \in BuiltIn
       THEN /\ ~last.raised
            /\ last.status = "waiting"
            /\ last.code = 200
            /\ prev_transcript = <<>>
       ELSE /\ last.raised
            /\ last.status = "error"
            /\ last.code = 500
            /\ prev_transcript = last.before

\* C9 witness: after an engine failure, a later chunk is transcribed by a
\* built-in provider and answered with text
C9_Witness ==
  /\ failed
  /\ last.provider \in BuiltIn
  /\ last.engine = "text"
  /\ last.status = "transcript"
  /\ last.before = <<>>

\* C10: transcribe of the Whisper and Deepgram providers never raises; when
\* the engine throws or returns no results it returns the empty string.
C10_BuiltInTranscribeNeverRaises ==
  (last.reached /\ last.provider \in BuiltIn) =>
    /\ ~last.raised
    /\ last.engine \in {"throw", "none"} => last.current = <<>>

\* C10 witness: Deepgram returned no results after a non-empty transcript
C10_Witness ==
  /\ last.reached
  /\ last.provider = "DeepgramSTT"
  /\ last.engine = "none"
  /\ last.before # <<>>
  /\ last.current = <<>>

\* C11 as stated: with no transcription engine the condition is a setup-time
\* error, never a per-chunk error, and no chunk is buffered or transcribed.
C11_RefusedAtSetup ==
  stt_provider = NoProvider =>
    /\ last.status # "error"
    /\ audio_buffer = <<>>
    /\ prev_transcript = <<>>

\* C11 amended: with no transcription engine the server still starts and
\* answers every chunk with the error "STT provider not available" (code
\* 500); no chunk is read, appended or transcribed and the previous
\* transcript stays empty.
C11_RefusedPerChunk ==
  stt_provider = NoProvider =>
    /\ audio_buffer = <<>>
    /\ total = 0
    /\ prev_transcript = <<>>
    /\ inflight = {}
    /\ ~last.reached
    /\ requests > 0 => (last.status = "error" /\ last.code = 500)

\* C11 witness: two chunks were refused
C11_Witness ==
  /\ stt_provider = NoProvider
  /\ requests = 2
  /\ last.status = "error"
  /\ last.code = 500

\* C14: a failed /stt/switch (unknown name: 400, constructor raising: 500)
\* leaves provider, provider type, audio buffer and previous transcript as
\* they were; a successful one replaces provider and provider type together;
\* nothing else changes either of the two.
C14_FailedSwitchChangesNothing ==
  [][/\ switched'.code \in {400, 500} =>
          UNCHANGED <<stt_provider, stt_provider_type, audio_buffer,
                      prev_transcript>>
     /\ switched'.code = 200 =>
          /\ switched'.name \in DOMAIN providers
          /\ stt_provider' = providers[switched'.name]
          /\ stt_provider_type' = switched'.name
          /\ UNCHANGED <<audio_buffer, prev_transcript>>
     /\ (stt_provider' # stt_provider \/ stt_provider_type' # stt_provider_type) =>
          switched'.code = 200]_vars

\* C14 witness: a switch failed in the constructor while audio was buffered
\* and a transcript was stored
C14_Witness ==
  /\ switched.code = 500
  /\ audio_buffer # <<>>
  /\ prev_transcript # <<>>
  /\ stt_provider \in BuiltIn


\* C28 as stated: after a request has appended its samples, the stored
\* previous transcript is the transcript of the buffer as that append left it.
C28_StoredIsOfLatestAppend ==
  last.reached => (~last.raised /\ prev_transcript = last.current)

\* C28 amended: the buffer, the sample count and the stored transcript change
\* only in the step of one in-flight request, which appends and truncates,
\* transcribes, reconciles, stores and is answered in that one step, while
\* every other in-flight request stays before its append; the stored
\* transcript is the one returned for the most recent append whose
\* transcription returned, and a request whose transcription raises leaves
\* its samples appended and the stored transcript unchanged.
C28_ChunkHandlingAtomic ==
  [][/\ prev_transcript' = returned'
     /\ (\/ audio_buffer' # audio_buffer
         \/ total' # total
         \/ prev_transcript' # prev_transcript) =>
          \E k \in inflight :
            /\ inflight' = inflight \ {k}
            /\ last'.client = k
            /\ last'.reached
            /\ last'.before = prev_transcript
            /\ audio_buffer' =
                 Truncate(Extend(audio_buffer, k, total + 1, total' - total))
            /\ IF last'.raised
               THEN prev_transcript' = prev_transcript /\ last'.code = 500
               ELSE /\ prev_transcript' = last'.current
                    /\ last'.code = 200]_vars

\* C28 witness: a request was handled while another one was in flight
C28_Witness ==
  /\ inflight # {}
  /\ last.reached
  /\ last.client \notin inflight
  /\ last.status = "transcript"
  /\ last.current # last.before
  /\ prev_transcript = last.current

\* C29: whenever GET /stt/current reports a provider type, the server's
\* provider is an instance of the class registered under that type.
C29_ReportedTypeNamesProvider ==
  LET answer == get_current_provider(stt_provider, stt_provider_type)
  IN answer.code = 200 =>
       /\ answer.provider_type \in DOMAIN providers
       /\ providers[answer.provider_type] = stt_provider

\* ------------------------------------------------- factory and instance
\* C12: set_language with a code that the provider does not list as supported
\* (and that is not 'auto' on Whisper) fails with ValueError, which the
\* endpoint answers with an error, and leaves the instance, its language and
\* its config, as it was; 'auto' is accepted by
\* Whisper and refused by every other provider.
C12_UnsupportedLanguageRefused ==
  [][fres'.op = "set_language" =>
       LET language == fres'.arg
           cls == provider_obj.cls
           listed == language \in supported_languages(cls)
       IN /\ (~listed /\ ~(language = "auto" /\ cls = "WhisperSTT")) =>
               /\ fres'.outcome = "ValueError"
               /\ fres'.code = 500
               /\ provider_obj' = provider_obj
          /\ language = "auto" =>
               (fres'.outcome = "ok" <=> cls = "WhisperSTT")]_vars

C12_Witness ==
  /\ fres.op = "set_language"
  /\ fres.arg = "auto"
  /\ fres.cls = "DeepgramSTT"
  /\ fres.outcome = "ValueError"
  /\ provider_obj.language = "en"
  /\ "language" \notin DOMAIN provider_obj.config

\* C13: create_provider with a name that is not registered fails with
\* ValueError, calls no constructor, and leaves the registry and the instance
\* alone; with a registered name it calls the constructor of the registered
\* class once, with the given config, and leaves the registry alone.
C13_CreateByRegisteredName ==
  [][fres'.op = "create" =>
       IF fres'.name \notin DOMAIN providers
       THEN /\ fres'.outcome = "ValueError"
            /\ fres'.ctor = 0
            /\ UNCHANGED <<providers, provider_obj>>
       ELSE /\ fres'.ctor = 1
            /\ UNCHANGED providers
            /\ fres'.outcome = "ok" =>
                 /\ provider_obj'.cls = providers[fres'.name]
                 /\ provider_obj'.config = fres'.arg]_vars

C13_Witness ==
  /\ fres.op = "create"
  /\ fres.name = "azure"
  /\ fres.outcome = "ValueError"
  /\ fres.ctor = 0
  /\ provider_obj.cls = "DeepgramSTT"

\* C19: register_provider(name, cls) maps name to cls, lists it among
\* the available providers and touches no other name when cls is a subclass of STTProvider, and otherwise fails with
\* ValueError and leaves the registry as it was; a create_provider that
\* returns gives an instance of the class the name is registered to, holding
\* the config it was given.
C19_RegisterSubclassesOnly ==
  [][/\ fres'.op = "register" =>
          IF fres'.cls \in ProviderClasses
          THEN /\ fres'.outcome = "ok"
               /\ get_available_providers(providers') =
                    get_available_providers(providers) \cup {fres'.name}
               /\ providers'[fres'.name] = fres'.cls
               /\ \A n \in DOMAIN providers \ {fres'.name} :
                    providers'[n] = providers[n]
          ELSE /\ fres'.outcome = "ValueError"
               /\ providers' = providers
     /\ (fres'.op = "create" /\ fres'.outcome = "ok") =>
          /\ provider_obj'.cls = providers'[fres'.name]
          /\ provider_obj'.config = fres'.arg]_vars

C19_Witness ==
  /\ fres.op = "create"
  /\ fres.name = "custom"
  /\ fres.outcome = "ok"
  /\ provider_obj.cls = "CustomSTT"
  /\ provider_obj.config # <<>>

\* C20: update_config merges: every key of the update takes the update's
\* value, every other key stays present or absent as it was and keeps its
\* value, and get_config returns exactly the merged mapping.
C20_UpdateConfigMerges ==
  [][fres'.op = "update_config" =>
       LET update == fres'.arg
           before == get_config(provider_obj)
           after == get_config(provider_obj')
       IN \A key \in Keys :
            IF key \in DOMAIN update
            THEN key \in DOMAIN after /\ after[key] = update[key]
            ELSE /\ key \in DOMAIN after <=> key \in DOMAIN before
                 /\ key \in DOMAIN before => after[key] = before[key]]_vars

C20_Witness ==
  /\ fres.op = "update_config"
  /\ DOMAIN fres.arg = {"language"}
  /\ "model" \in DOMAIN get_config(provider_obj)
  /\ get_config(provider_obj)["language"] = fres.arg["language"]

\* C21: set_language with a code the provider lists as supported, or with
\* 'auto' on Whisper, succeeds, and afterwards the language attribute and
\* config['language'] both equal the code; every built-in provider lists 'en'.
C21_SupportedLanguageSet ==
  [][/\ \A cls \in BuiltIn : "en" \in supported_languages(cls)
     /\ fres'.op = "set_language" =>
          LET language == fres'.arg
              cls == provider_obj.cls
          IN (\/ language \in supported_languages(cls)
              \/ language = "auto" /\ cls = "WhisperSTT") =>
               /\ fres'.outcome = "ok"
               /\ fres'.code = 200
               /\ provider_obj'.language = language
               /\ "language" \in DOMAIN get_config(provider_obj')
               /\ get_config(provider_obj')["language"] = language]_vars

C21_Witness ==
  /\ fres.op = "set_language"
  /\ fres.arg = "he"
  /\ fres.cls = "WhisperSTT"
  /\ fres.outcome = "ok"
  /\ provider_obj.language = "he"
  /\ get_config(provider_obj)["language"] = "he"

\* C30: for a built-in provider, the language that get_config reports is
\* the language transcribe hands to the engine, and the model it reports is
\* the model the engine runs.
C30_ReportedConfigIsInUse ==
  provider_obj.cls \in BuiltIn =>
    LET config == get_config(provider_obj)
    IN /\ "language" \in DOMAIN config =>
            config["language"] = language_in_use(provider_obj)
       /\ "model" \in DOMAIN config =>
            config["model"] = model_in_use(provider_obj)

\* ------------------------------------------------------------- the segmenter
\* the frames numbered lo to hi, in order
FrameRange(lo, hi) == [i \in 1..(hi - lo + 1) |-> lo + i - 1]

Segmenter_initial ==
  /\ vad_buffer = <<>>
  /\ silence_counter = 0
  /\ in_speech = FALSE

\* C15: when the frames fed so far are some non-speech frames, then s >= 1
\* speech frames, then 16 non-speech frames, exactly one segment has been
\* finalized, it is the s speech frames followed by the 16 trailing frames,
\* and the segmenter is in its initial state.
C15_SingleUtterance ==
  LET k == Len(tape)
      a == IF k = 3 THEN tape[1].n ELSE 0
  IN (/\ k \in {2, 3}
      /\ tape[k] = [speech |-> FALSE, n |-> MAX_SILENCE_FRAMES + 1]
      /\ tape[k - 1].speech)
     => /\ segments =
             <<FrameRange(a + 1, a + tape[k - 1].n + MAX_SILENCE_FRAMES + 1)>>
        /\ Segmenter_initial

C15_Witness ==
  /\ Len(tape) = 3
  /\ tape[1] = [speech |-> FALSE, n |-> 1]
  /\ tape[2] = [speech |-> TRUE, n |-> 2]
  /\ tape[3] = [speech |-> FALSE, n |-> 16]
  /\ segments = <<FrameRange(2, 19)>>
  /\ Segmenter_initial

\* C16: as long as no frame fed was classified speech, every process_audio
\* call returns (False, None) and the segmenter stays in its initial state.
C16_NoSpeechNeverFinalizes ==
  (calls > 0 /\ \A r \in 1..Len(tape) : ~tape[r].speech)
  => /\ vres.outcome = "ok"
     /\ vres.finalized = 0
     /\ segments = <<>>
     /\ Segmenter_initial

\* C17: a process_audio call on n samples that finalizes nothing classifies
\* exactly n div 320 frames, each of 320 samples; the samples left over are
\* dropped.
C17_FramesOfFixedSize ==
  (calls > 0 /\ vres.finalized = 0)
  => /\ vres.outcome = "ok"
     /\ vres.classified = vres.n \div FRAME_SIZE
     /\ \A i \in 1..vres.classified : vres.sizes[i] = FRAME_SIZE

\* the positions in an input of N frames at which an utterance ends when
\* every frame is processed: the non-speech frames that make the count of
\* non-speech frames since the last speech frame exceed MAX_SILENCE_FRAMES
RECURSIVE Boundaries(_, _, _, _, _)
Boundaries(speaking, silent, speech, i, N) ==
  IF i > N THEN {}
  ELSE IF i \in speech THEN Boundaries(TRUE, 0, speech, i + 1, N)
  ELSE IF ~speaking THEN Boundaries(FALSE, 0, speech, i + 1, N)
  ELSE IF silent + 1 > MAX_SILENCE_FRAMES
  THEN {i} \cup Boundaries(FALSE, 0, speech, i + 1, N)
  ELSE Boundaries(TRUE, silent + 1, speech, i + 1, N)

Least(S) == CHOOSE x \in S : \A y \in S : x <= y

\* C18: a process_audio call that returns reports at most one finalized
\* segment; it reports one exactly when its input holds an utterance
\* boundary, the segment ends with the frame of the first boundary, and the
\* frames after it, a second boundary included, leave no trace: the segmenter
\* is in its initial state. A call that raises reports no segment.
C18_AtMostOneSegmentPerCall ==
  [][calls' = calls + 1 =>
       LET N == Len(vres'.sizes)
           B == Boundaries(in_speech, silence_counter, vres'.speech, 1, N)
       IN /\ vres'.finalized <= 1
          /\ Len(segments') = Len(segments) + vres'.finalized
          /\ vres'.outcome # "ok" => vres'.finalized = 0
          /\ (vres'.outcome = "ok" /\ B = {}) => vres'.finalized = 0
          /\ (vres'.outcome = "ok" /\ B # {}) =>
               /\ vres'.finalized = 1
               /\ LET seg == segments'[Len(segments')]
                  IN seg[Len(seg)] = Fed(tape) + Least(B)
               /\ vad_buffer' = <<>>
               /\ silence_counter' = 0
               /\ ~in_speech']_vars

C18_Witness ==
  /\ vres.n = 5760
  /\ vres.finalized = 1
  /\ tape = <<[speech |-> TRUE, n |-> 1], [speech |-> FALSE, n |-> 16],
              [speech |-> TRUE, n |-> 1], [speech |-> FALSE, n |-> 16]>>
  /\ segments = <<FrameRange(1, 17)>>
  /\ Segmenter_initial

\* the last speech frame of an input at or before position j, 0 if none
LastSpeech(speech, j) ==
  IF \E p \in speech : p <= j
  THEN CHOOSE p \in speech : p <= j /\ \A q \in speech : q <= j => q <= p
  ELSE 0

\* frame j of an input is the 16th non-speech frame in a row after speech,
\* counting the non-speech frames that earlier inputs left behind
SixteenthSilent(speaking, silent, speech, j) ==
  /\ j \notin speech
  /\ IF LastSpeech(speech, j) = 0
     THEN speaking /\ silent + j = MAX_SILENCE_FRAMES + 1
     ELSE j - LastSpeech(speech, j) = MAX_SILENCE_FRAMES + 1

\* C23: a process_audio call that returns finalizes an utterance exactly when
\* its input holds a 16th consecutive non-speech frame after speech, counted
\* across calls, and the segment ends with the first such frame; a call that
\* finalizes nothing leaves in the silence counter the number of non-speech
\* frames since the last speech frame: the earlier count plus the frames of
\* the input, or the frames after the input's last speech frame.
C23_SilenceThreshold ==
  [][(calls' = calls + 1 /\ vres'.outcome = "ok") =>
       LET N == Len(vres'.sizes)
           speech == vres'.speech
           E == {j \in 1..N :
                   SixteenthSilent(in_speech, silence_counter, speech, j)}
       IN /\ vres'.finalized = 1 <=> E # {}
          /\ vres'.finalized = 1 =>
               LET seg == segments'[Len(segments')]
               IN seg[Len(seg)] = Fed(tape) + Least(E)
          /\ (vres'.finalized = 0 /\ in_speech') =>
               /\ silence_counter' <= MAX_SILENCE_FRAMES
               /\ silence_counter' =
                    IF LastSpeech(speech, N) = 0 THEN silence_counter + N
                    ELSE N - LastSpeech(speech, N)]_vars

C23_Witness ==
  /\ vres.n = 5120
  /\ vres.speech = {}
  /\ vres.finalized = 1
  /\ tape = <<[speech |-> TRUE, n |-> 1], [speech |-> FALSE, n |-> 17]>>
  /\ segments = <<FrameRange(1, 17)>>

\* the classification of frame id on the tape
RECURSIVE SpeechAt(_, _)
SpeechAt(t, id) ==
  IF id <= t[1].n THEN t[1].speech ELSE SpeechAt(Tail(t), id - t[1].n)

\* the frames lo..hi are all non-speech
AllSilent(lo, hi) == \A id \in lo..hi : ~SpeechAt(tape, id)

\* C24: every finalized segment is a run of consecutive frames in order; it
\* begins with the first speech frame classified after the segment before it
\* (every frame in between was non-speech or was never classified), it ends
\* with the finalizing frame, the 16th non-speech frame in a row, which is the
\* first such frame in it, and so it holds no frame classified in silence.
C24_SegmentContent ==
  \A k \in 1..Len(segments) :
    LET seg == segments[k]
        first == seg[1]
        final == seg[Len(seg)]
        prev == IF k = 1 THEN 0
                ELSE segments[k - 1][Len(segments[k - 1])]
    IN /\ seg = FrameRange(first, final)
       /\ prev < first
       /\ SpeechAt(tape, first)
       /\ \A id \in (prev + 1)..(first - 1) :
            id \in unread \/ ~SpeechAt(tape, id)
       /\ seg \in Seq((1..Fed(tape)) \ unread)
       /\ final - first >= MAX_SILENCE_FRAMES + 1
       /\ AllSilent(final - MAX_SILENCE_FRAMES, final)
       /\ \A id \in first..(final - 1) :
            id - first >= MAX_SILENCE_FRAMES + 1
              => ~AllSilent(id - MAX_SILENCE_FRAMES, id)

C24_Witness ==
  /\ segments = <<FrameRange(1, 17), FrameRange(20, 36)>>
  /\ unread = {18}
  /\ ~SpeechAt(tape, 19)

\* C25: a process_audio call on fewer than 320 samples returns (False, None)
\* and leaves the buffer, the silence counter and in_speech as they were.
C25_ShortInputDropped ==
  [][(calls' = calls + 1 /\ vres'.n < FRAME_SIZE) =>
       /\ vres'.outcome = "ok"
       /\ vres'.finalized = 0
       /\ UNCHANGED <<vad_buffer, silence_counter, in_speech>>]_vars

\* the members of a sequence
Range(seq) == {seq[i] : i \in 1..Len(seq)}

\* C26: between calls, outside speech the buffer is empty and the silence
\* counter is 0; in speech the buffer is not empty, starts with a speech
\* frame, the counter is at most MAX_SILENCE_FRAMES, and the last
\* silence_counter frames of the buffer are the non-speech frames seen since
\* the last speech frame, which comes right before them in the buffer.
C26_SegmenterStateInvariant ==
  IF ~in_speech
  THEN vad_buffer = <<>> /\ silence_counter = 0
  ELSE LET len == Len(vad_buffer)
           seen == Fed(tape)
       IN /\ len > silence_counter
          /\ SpeechAt(tape, vad_buffer[1])
          /\ silence_counter <= MAX_SILENCE_FRAMES
          /\ SubSeq(vad_buffer, len - silence_counter + 1, len) =
               FrameRange(seen - silence_counter + 1, seen)
          /\ AllSilent(seen - silence_counter + 1, seen)
          /\ vad_buffer[len - silence_counter] = seen - silence_counter
          /\ SpeechAt(tape, seen - silence_counter)

C26_Witness ==
  /\ in_speech
  /\ silence_counter = MAX_SILENCE_FRAMES
  /\ vad_buffer = FrameRange(2, 17)
  /\ SpeechAt(tape, 2)

\* C27: every frame classified as speech, or fed as speech after a boundary in
\* the same call, is in a finalized segment or in the accumulation buffer.
C27_NoSpeechLost ==
  \A id \in 1..Fed(tape) :
    SpeechAt(tape, id) =>
      \/ id \in Range(vad_buffer)
      \/ \E k \in 1..Len(segments) : id \in Range(segments[k])

\* --------------------------------------------------------------- the session
\* the events of one kind
OfKind(evs, kind) == {i \in 1..Len(evs) : evs[i].kind = kind}

\* the texts of the final events, in order
RECURSIVE FinalTexts(_)
FinalTexts(evs) ==
  IF evs = <<>> THEN <<>>
  ELSE IF evs[1].kind = "final"
  THEN <<evs[1].text>> \o FinalTexts(Tail(evs))
  ELSE FinalTexts(Tail(evs))

\* C22: the step that tears down a session that has accumulated final texts
\* emits one final_full event, the only one of the session, which carries the
\* texts joined by single spaces and trimmed; the session is then CLOSED with
\* its buffers released, and a CLOSED session emits nothing and stays CLOSED.
C22_SessionTeardown ==
  [][/\ (session # "CLOSED" /\ session' = "CLOSED" /\ finals # <<>>) =>
          /\ Len(events') = Len(events) + 1
          /\ SubSeq(events', 1, Len(events)) = events
          /\ OfKind(events', "final_full") = {Len(events')}
          /\ LET text == events'[Len(events')].text
                 joined == Join(FinalTexts(events))
             IN /\ text = strip(joined)
                /\ text = <<>> \/ (~IsSpace(Head(text)) /\ ~IsSpace(text[Len(text)]))
          /\ released'
          /\ finals' = <<>>
     /\ session = "CLOSED" => UNCHANGED <<session, events, finals, released>>]_vars

C22_Witness ==
  /\ session = "CLOSED"
  /\ released
  /\ Len(events) = 3
  /\ events[1] = Event("final", <<"a", " ">>)
  /\ events[2] = Event("final", <<"a">>)
  /\ events[3] = Event("final_full", <<"a", " ", " ", "a">>)
====
